---- MODULE Spec2Model ----
(***************************************************************************)
(* A model of the sampling core of synthpops (src/synthpops/synthpops.py): *)
(* norm_dic, sample_single, sample_bracket, the age-bracket lookups,       *)
(* combine_matrices, sample_contact_age, sample_n_contact_ages,            *)
(* get_n_contact_ids_by_age and get_age_sex.                               *)
(*                                                                         *)
(* Conventions.                                                            *)
(*  - A Python dict is a TLA+ function on its key set; a 1-D numpy array   *)
(*    of length n is a function on 0..n-1 (the source's 0-based indices    *)
(*    are kept); a 2-D array is a function of rows.                        *)
(*  - Arithmetic is exact.  A vector of floats is a record                 *)
(*    [w |-> numerators, den |-> common denominator]; den = 0 stands for   *)
(*    the nan/inf entries that a division by a zero total produces.        *)
(*  - The random source is nondeterminism: a sampling function yields the  *)
(*    set of values it can return (every value of positive probability).   *)
(*  - A call's result is [kind, val]: kind "ok" with the value returned,   *)
(*    or the name of the Python exception that propagates.                 *)
(*  - numpy.random.multinomial and binomial check their probabilities as   *)
(*    numpy >= 1.17 does (0 <= p <= 1, no nan).                            *)
(***************************************************************************)
EXTENDS Integers, Sequences, FiniteSets, TLC

VARIABLES
    distr,                  \* sample_single / norm_dic: the distribution passed in
    matrix_dic,             \* setting code -> age mixing matrix
    weights_dic,            \* setting code -> weight, as the dict's (code, weight) items in iteration order
    num_agebrackets,        \* K, the size of the combined matrix
    ab_rows,                \* rows (age_min, age_max) of the bracket file
    age_brackets,           \* bracket index -> ages of the bracket
    age_by_brackets_dic,    \* age -> bracket index
    age,                    \* the individual's age
    n_contacts,             \* number of contacts to sample
    contact_ids_by_age_dic, \* age -> reference of that age's identifier list
    heap,                   \* reference -> list of identifiers
    contact_ages,           \* the sampled contact ages handed to the resolver
    gender_fraction_by_age, \* 'male' table: bracket -> [w, den] probability
    age_bracket_distr,      \* bracket -> weight, [w, den]
    age_params,             \* [min_age, max_age, age_mean, age_std]
    res                     \* the last call: [op, kind, val]

vars == <<distr, matrix_dic, weights_dic, num_agebrackets, ab_rows, age_brackets,
          age_by_brackets_dic, age, n_contacts, contact_ids_by_age_dic, heap,
          contact_ages, gender_fraction_by_age, age_bracket_distr, age_params, res>>

inputs == <<distr, matrix_dic, weights_dic, num_agebrackets, ab_rows, age_brackets,
            age_by_brackets_dic, age, n_contacts, contact_ids_by_age_dic, heap,
            contact_ages, gender_fraction_by_age, age_bracket_distr, age_params>>

(***************************************************************************)
(* Bounds of the model.                                                    *)
(***************************************************************************)
MaxKeys == 3        \* keys of a distribution mapping / length of a weight array
MaxK == 2           \* number of age brackets, size of a matrix dimension
MaxAge == 3         \* largest age in a bracket file row
MaxN == 2           \* number of contacts sampled / resolved

WeightValues == -1..2          \* raw weights of a distribution, negative ones included
Settings == {"H", "S"}         \* setting codes of the matrices

(***************************************************************************)
(* Helpers.                                                                *)
(***************************************************************************)
EmptyDic == [k \in {} |-> 0]

Abs(x) == IF x < 0 THEN -x ELSE x

Sgn(x) == IF x < 0 THEN -1 ELSE 1

Size(a) == Cardinality(DOMAIN a)

RECURSIVE SumTo(_, _)
\* a[0] + ... + a[n-1]
SumTo(a, n) == IF n <= 0 THEN 0 ELSE a[n-1] + SumTo(a, n-1)

RECURSIVE SumOver(_, _)
\* the sum of dic[i] for i in keys
SumOver(dic, keys) ==
    IF keys = {} THEN 0
    ELSE LET k == CHOOSE x \in keys : TRUE
         IN dic[k] + SumOver(dic, keys \ {k})

\* sorted(S) for a set of integers, as a 0-based array
sorted(S) ==
    [i \in 0..(Cardinality(S) - 1) |->
        CHOOSE k \in S : Cardinality({x \in S : x < k}) = i]

(***************************************************************************)
(* Outcomes.  A call either returns a value or raises; with the random     *)
(* source it has a set of possible results.                                *)
(***************************************************************************)
Ok(v) == [kind |-> "ok", val |-> v]

Raise(e) == [kind |-> e, val |-> {}]

\* continue with F(v) for every value v a step can return; an exception propagates
Bind(O, F(_)) == UNION {IF r.kind = "ok" THEN F(r.val) ELSE {r} : r \in O}

(***************************************************************************)
(* Distribution Normalizer and Categorical Sampler.                        *)
(***************************************************************************)
\* norm_dic(dic): the dict itself when its total is 0.0, else a new dict of dic[i] / total
norm_dic(dic) ==
    LET total == SumOver(dic.w, DOMAIN dic.w)
    IN IF total = 0 THEN dic
       ELSE [type |-> dic.type,
             w |-> [i \in DOMAIN dic.w |-> Sgn(total) * dic.w[i]],
             den |-> Abs(total)]

\* distr / np.sum(distr) on an array: nan or inf entries (den = 0) when the sum is 0
np_divide_by_sum(a) ==
    LET total == SumTo(a.w, Size(a.w))
    IN [type |-> a.type,
        w |-> [i \in DOMAIN a.w |-> Sgn(total) * a.w[i]],
        den |-> Abs(total)]

\* n = np.random.multinomial(1, pvals, size = 1)[0]; index = np.where(n)[0][0].
\* multinomial checks pvals (0 <= p <= 1, no nan, sum(pvals[:-1]) <= 1); then
\* position j gets binomial(left, pvals[j] / (1 - sum(pvals[:j]))) and the last
\* position gets what is left, whatever pvals[-1] is.  With no position at all,
\* np.where(n)[0] is empty and [0] raises.
multinomial_index(pvals, den) ==
    LET d == Size(pvals)
    IN IF d = 0 THEN {Raise("IndexError")}
       ELSE IF den = 0 \/ \E i \in 0..(d-1) : pvals[i] < 0 \/ pvals[i] > den
            THEN {Raise("ValueError")}
       ELSE IF SumTo(pvals, d-1) > den THEN {Raise("ValueError")}
       ELSE {Ok(j) : j \in {j \in 0..(d-2) : pvals[j] > 0 /\ SumTo(pvals, j) < den}}
            \cup (IF SumTo(pvals, d-1) < den THEN {Ok(d-1)} ELSE {})

\* sample_single returning the trial position for a mapping too, as sample_bracket does
sample_single_returns_position(d) ==
    IF d.type = "dict" THEN
        LET nd == norm_dic(d)
            sorted_keys == sorted(DOMAIN nd.w)
            sorted_distr == [i \in DOMAIN sorted_keys |-> nd.w[sorted_keys[i]]]
        IN multinomial_index(sorted_distr, nd.den)
    ELSE IF d.type = "ndarray" THEN
        LET nd == np_divide_by_sum(d)
        IN multinomial_index(nd.w, nd.den)
    ELSE {Ok("None")}

\* sample_single(distr): a key of a dict, an index of an ndarray, None for any other type
sample_single(d) ==
    IF d.type = "dict" THEN
        LET nd == norm_dic(d)
            sorted_keys == sorted(DOMAIN nd.w)
            sorted_distr == [i \in DOMAIN sorted_keys |-> nd.w[sorted_keys[i]]]
        IN Bind(multinomial_index(sorted_distr, nd.den),
                LAMBDA index : {Ok(sorted_keys[index])})
    ELSE IF d.type = "ndarray" THEN
        LET nd == np_divide_by_sum(d)
        IN multinomial_index(nd.w, nd.den)
    ELSE {Ok("None")}                  \* neither branch taken: the function ends, None

\* sample_bracket(distr, brackets): the raw values go to the multinomial draw
\* unnormalised, and the trial position is returned
sample_bracket(d, brackets) ==
    LET sorted_keys == sorted(DOMAIN d.w)
        sorted_distr == [i \in DOMAIN sorted_keys |-> d.w[sorted_keys[i]]]
    IN multinomial_index(sorted_distr, d.den)

(***************************************************************************)
(* Age-Bracket Resolver.                                                   *)
(***************************************************************************)
\* np.arange(lo, hi + 1)
np_arange(lo, hi1) == [i \in 0..(hi1 - lo - 1) |-> lo + i]

\* the values of an array
Values(a) == {a[i] : i \in DOMAIN a}

\* get_age_brackets_from_df: dic[index] = np.arange(age_min, age_max + 1), row by row
get_age_brackets_from_df(rows) ==
    [index \in DOMAIN rows |-> np_arange(rows[index][1], rows[index][2] + 1)]

RECURSIVE age_by_brackets_from(_, _, _)
\* the loop of get_age_by_brackets_dic from bracket b on: dic[a] = b overwrites
age_by_brackets_from(dic, brackets, b) ==
    IF b \notin DOMAIN brackets THEN dic
    ELSE age_by_brackets_from(
            [a \in Values(brackets[b]) |-> b] @@ dic, brackets, b + 1)

\* get_age_by_brackets_dic with the assignment inverted: dic[b] = a
get_age_by_brackets_dic_inverted(brackets) ==
    [b \in {c \in DOMAIN brackets : Size(brackets[c]) > 0} |->
        brackets[b][Size(brackets[b]) - 1]]

\* get_age_by_brackets_dic(age_brackets)
get_age_by_brackets_dic(brackets) == age_by_brackets_from(EmptyDic, brackets, 0)

(***************************************************************************)
(* Contact Matrix Combiner.                                                *)
(***************************************************************************)
\* np.zeros((K, K))
np_zeros(K) == [i \in 0..(K-1) |-> [j \in 0..(K-1) |-> 0]]

Rows(A) == Size(A)

Cols(A) == Size(A[0])

\* M += A: the weight dropped
iadd_unscaled(M, A, w) ==
    LET K == Rows(M)
    IN IF Rows(A) \in {1, K} /\ Cols(A) \in {1, K}
       THEN Ok([i \in 0..(K-1) |-> [j \in 0..(K-1) |->
                  M[i][j] + A[IF Rows(A) = 1 THEN 0 ELSE i][IF Cols(A) = 1 THEN 0 ELSE j]]])
       ELSE Raise("ValueError")

\* M += A * w: A is broadcast to M's shape when each of its dimensions is 1 or K
iadd_scaled(M, A, w) ==
    LET K == Rows(M)
    IN IF Rows(A) \in {1, K} /\ Cols(A) \in {1, K}
       THEN Ok([i \in 0..(K-1) |-> [j \in 0..(K-1) |->
                  M[i][j] + A[IF Rows(A) = 1 THEN 0 ELSE i][IF Cols(A) = 1 THEN 0 ELSE j] * w]])
       ELSE Raise("ValueError")

RECURSIVE combine_from(_, _, _, _)
\* the loop of combine_matrices from the i-th item of weights_dic on
combine_from(M, matrices, items, i) ==
    IF i > Len(items) THEN {Ok(M)}
    ELSE LET setting_code == items[i][1]
         IN IF setting_code \notin DOMAIN matrices THEN {Raise("KeyError")}
            ELSE Bind({iadd_scaled(M, matrices[setting_code], items[i][2])},
                      LAMBDA M1 : combine_from(M1, matrices, items, i + 1))

\* combine_matrices(matrix_dic, weights_dic, num_agebrackets)
combine_matrices(matrices, items, K) == combine_from(np_zeros(K), matrices, items, 1)

(***************************************************************************)
(* Contact Age Sampler.                                                    *)
(***************************************************************************)
\* np.random.choice(a): any element, ValueError on an empty array
np_random_choice(a) ==
    IF Size(a) = 0 THEN {Raise("ValueError")} ELSE {Ok(x) : x \in Values(a)}

\* sample_contact_age reading column b, age_mixing_matrix[:, b], instead of row b
sample_contact_age_by_column(a, brackets, lookup, M) ==
    IF a \notin DOMAIN lookup THEN {Raise("KeyError")}
    ELSE LET b == lookup[a]
         IN IF b \notin DOMAIN M[0] THEN {Raise("IndexError")}
            ELSE Bind(sample_single([type |-> "ndarray",
                                     w |-> [i \in DOMAIN M |-> M[i][b]], den |-> 1]),
                      LAMBDA b_contact :
                          IF b_contact \notin DOMAIN brackets THEN {Raise("KeyError")}
                          ELSE np_random_choice(brackets[b_contact]))

\* sample_contact_age(age, age_brackets, age_by_brackets_dic, age_mixing_matrix)
sample_contact_age(a, brackets, lookup, M) ==
    IF a \notin DOMAIN lookup THEN {Raise("KeyError")}
    ELSE LET b == lookup[a]
         IN IF b \notin DOMAIN M THEN {Raise("IndexError")}
            ELSE Bind(sample_single([type |-> "ndarray", w |-> M[b], den |-> 1]),
                      LAMBDA b_contact :
                          IF b_contact \notin DOMAIN brackets THEN {Raise("KeyError")}
                          ELSE np_random_choice(brackets[b_contact]))

RECURSIVE contact_ages_from(_, _, _)
\* the loop of sample_n_contact_ages: i more draws appended to contact_ages
contact_ages_from(acc, i, draw) ==
    IF i = 0 THEN {Ok(acc)}
    ELSE Bind(draw, LAMBDA a : contact_ages_from(Append(acc, a), i - 1, draw))

\* sample_n_contact_ages(n_contacts, age, age_brackets, age_by_brackets_dic,
\*                       age_mixing_matrix_dic, weights_dic, num_agebrackets)
sample_n_contact_ages(n, a, brackets, lookup, matrices, items, K) ==
    Bind(combine_matrices(matrices, items, K),
         LAMBDA M : contact_ages_from(<<>>, n, sample_contact_age(a, brackets, lookup, M)))

(***************************************************************************)
(* Contact Identity Resolver.  The identifier lists live in the heap: the  *)
(* pool maps an age to the reference of its list, and a list that the      *)
(* function builds is a new heap cell, dropped when the call ends.         *)
(***************************************************************************)
LocalRef == -1

\* potential_contacts bound to the pool's own (empty) list of the contact age
potential_contacts_aliased(pool, contact_age) == pool[contact_age]

\* potential_contacts = []: a new list
potential_contacts_ref(pool, contact_age) == LocalRef

\* np.choice(a): numpy has no attribute 'choice'
np_choice(a) == {Raise("AttributeError")}

RECURSIVE potential_contacts_from(_, _, _, _, _)
\* the loop "for a in age_brackets[b_contact]: potential_contacts += pool[a]" from
\* the j-th age of the bracket on; yields the heap it leaves and how it ended
potential_contacts_from(h, ref, pool, ages, j) ==
    IF j \notin DOMAIN ages THEN [kind |-> "ok", heap |-> h]
    ELSE IF ages[j] \notin DOMAIN pool THEN [kind |-> "KeyError", heap |-> h]
    ELSE potential_contacts_from([h EXCEPT ![ref] = @ \o h[pool[ages[j]]]],
                                 ref, pool, ages, j + 1)

\* the heap with the cells of `keep` only
Drop(h, keep) == [r \in keep |-> h[r]]

RECURSIVE contact_ids_from(_, _, _, _, _, _, _)
\* the loop of get_n_contact_ids_by_age from the i-th contact age on: the set of
\* [kind, val, heap] it can end with
contact_ids_from(h, contact_ids, pool, ages, brackets, lookup, i) ==
    IF i > Len(ages) THEN {[kind |-> "ok", val |-> contact_ids, heap |-> h]}
    ELSE LET contact_age == ages[i]
             chosen(h1, O) ==
                 UNION {IF r.kind = "ok"
                        THEN contact_ids_from(h1, contact_ids \cup {r.val}, pool, ages,
                                              brackets, lookup, i + 1)
                        ELSE {[kind |-> r.kind, val |-> {}, heap |-> h1]} : r \in O}
             failed(e) == {[kind |-> e, val |-> {}, heap |-> h]}
         IN IF contact_age \notin DOMAIN pool THEN failed("KeyError")
            ELSE IF Len(h[pool[contact_age]]) > 0
                 THEN chosen(h, np_choice(h[pool[contact_age]]))
            ELSE IF contact_age \notin DOMAIN lookup THEN failed("KeyError")
            ELSE IF lookup[contact_age] \notin DOMAIN brackets THEN failed("KeyError")
            ELSE LET ref == potential_contacts_ref(pool, contact_age)
                     g == potential_contacts_from((ref :> <<>>) @@ h, ref, pool,
                                                  brackets[lookup[contact_age]], 0)
                 IN IF g.kind # "ok"
                    THEN {[kind |-> g.kind, val |-> {}, heap |-> g.heap]}
                    ELSE chosen(g.heap, np_choice(g.heap[ref]))

\* get_n_contact_ids_by_age(contact_ids_by_age_dic, contact_ages, age_brackets,
\*                          age_by_brackets_dic) on heap h
get_n_contact_ids_by_age(h, pool, ages, brackets, lookup) ==
    {[kind |-> r.kind, val |-> r.val, heap |-> Drop(r.heap, DOMAIN h)] :
        r \in contact_ids_from(h, {}, pool, ages, brackets, lookup, 1)}

(***************************************************************************)
(* Age-Sex Generator.                                                      *)
(***************************************************************************)
\* np.random.binomial(1, p) with p = num / den
np_random_binomial(num, den) ==
    IF num < 0 \/ num > den THEN {Raise("ValueError")}
    ELSE {Ok(x) : x \in (IF num < den THEN {0} ELSE {}) \cup (IF num > 0 THEN {1} ELSE {})}

Min2(a, b) == IF a < b THEN a ELSE b

Max2(a, b) == IF a < b THEN b ELSE a

\* pl.median([a, b, c]): the middle one
median3(a, b, c) == a + b + c - Min2(a, Min2(b, c)) - Max2(a, Max2(b, c))

\* pl.normal(age_mean, age_std): ValueError for a negative scale, the mean for scale 0,
\* else any real; the reals are represented by the integers from one below the
\* smallest to one above the largest of min_age, max_age and age_mean
pl_normal(p) ==
    IF p.age_std < 0 THEN {Raise("ValueError")}
    ELSE IF p.age_std = 0 THEN {Ok(p.age_mean)}
    ELSE {Ok(x) : x \in (Min2(p.age_mean, Min2(p.min_age, p.max_age)) - 1)
                         ..(Max2(p.age_mean, Max2(p.min_age, p.max_age)) + 1)}

\* the try block of get_age_sex
age_sex_primary(gender, d, brackets) ==
    Bind(sample_bracket(d, brackets), LAMBDA b :
        IF b \notin DOMAIN brackets THEN {Raise("KeyError")}
        ELSE Bind(np_random_choice(brackets[b]), LAMBDA a :
            IF b \notin DOMAIN gender.male.w THEN {Raise("KeyError")}
            ELSE Bind(np_random_binomial(gender.male.w[b], gender.male.den), LAMBDA sex :
                {Ok([age |-> a, sex |-> sex, path |-> "primary"])})))

\* the except block of get_age_sex
age_sex_fallback(p) ==
    UNION {Bind(pl_normal(p), LAMBDA a :
              {Ok([age |-> median3(p.min_age, a, p.max_age), sex |-> sex,
                   path |-> "fallback"])}) : sex \in {0, 1}}

\* get_age_sex without its except block
get_age_sex_no_except(gender, d, lookup, brackets, p) == age_sex_primary(gender, d, brackets)

\* get_age_sex: "path" is not part of the returned pair, it records the block that returned
get_age_sex(gender, d, lookup, brackets, p) ==
    UNION {IF r.kind = "ok" THEN {r} ELSE age_sex_fallback(p) :
              r \in age_sex_primary(gender, d, brackets)}

(***************************************************************************)
(* Calls.                                                                  *)
(***************************************************************************)
\* res' after a call with the possible results O
Call(op, O) == \E r \in O : res' = [op |-> op, kind |-> r.kind, val |-> r.val]

Call_norm_dic ==
    /\ distr.type = "dict"
    /\ Call("norm_dic", {Ok(norm_dic(distr))})
    /\ UNCHANGED inputs

Call_sample_single ==
    /\ Call("sample_single", sample_single(distr))
    /\ UNCHANGED inputs

Call_get_age_by_brackets_dic ==
    /\ Call("get_age_by_brackets_dic", {Ok(get_age_by_brackets_dic(age_brackets))})
    /\ UNCHANGED inputs

Call_combine_matrices ==
    /\ Call("combine_matrices", combine_matrices(matrix_dic, weights_dic, num_agebrackets))
    /\ UNCHANGED inputs

Call_sample_n_contact_ages ==
    /\ Call("sample_n_contact_ages",
            sample_n_contact_ages(n_contacts, age, age_brackets, age_by_brackets_dic,
                                  matrix_dic, weights_dic, num_agebrackets))
    /\ UNCHANGED inputs

Call_get_n_contact_ids_by_age ==
    \E r \in get_n_contact_ids_by_age(heap, contact_ids_by_age_dic, contact_ages,
                                      age_brackets, age_by_brackets_dic) :
        /\ res' = [op |-> "get_n_contact_ids_by_age", kind |-> r.kind, val |-> r.val]
        /\ heap' = r.heap
        /\ UNCHANGED <<distr, matrix_dic, weights_dic, num_agebrackets, ab_rows,
                       age_brackets, age_by_brackets_dic, age, n_contacts,
                       contact_ids_by_age_dic, contact_ages, gender_fraction_by_age,
                       age_bracket_distr, age_params>>

Call_get_age_sex ==
    /\ Call("get_age_sex", get_age_sex(gender_fraction_by_age, age_bracket_distr,
                                       age_by_brackets_dic, age_brackets, age_params))
    /\ UNCHANGED inputs

Call_get_age_brackets_from_df ==
    /\ Call("get_age_brackets_from_df", {Ok(get_age_brackets_from_df(ab_rows))})
    /\ UNCHANGED inputs

(***************************************************************************)
(* Inputs.  Each specification lets the inputs of the component it         *)
(* exercises range over a bounded set and holds the others at the          *)
(* reference scenario: brackets of two ages each, cross-bracket contact    *)
(* only, weight set {H: 1}.                                                *)
(***************************************************************************)
NoCall == [op |-> "none", kind |-> "ok", val |-> {}]

Dict(f) == [type |-> "dict", w |-> f, den |-> 1]

NdArray(f) == [type |-> "ndarray", w |-> f, den |-> 1]

PyList(f) == [type |-> "list", w |-> f, den |-> 1]

\* mappings over any keys of 1..MaxKeys, arrays of length up to MaxKeys, and plain
\* lists of one weight
Distrs ==
    {Dict(f) : f \in UNION {[ks -> WeightValues] : ks \in SUBSET (1..MaxKeys)}}
    \cup {NdArray(f) : f \in UNION {[0..(n-1) -> WeightValues] : n \in 0..MaxKeys}}
    \cup {PyList(f) : f \in [0..0 -> WeightValues]}

\* K brackets [0,1], [2,3], ...
RefRows(K) == [i \in 0..(K-1) |-> <<2*i, 2*i + 1>>]

\* rows (age_min, age_max) with age_min <= age_max + 1 (the last give an empty bracket)
RowSets ==
    UNION {[0..(n-1) -> {p \in (0..MaxAge) \X (0..MaxAge) : p[1] <= p[2] + 1}] : n \in 1..MaxK}

\* the r x c matrix with value v at (i, j) and 0 elsewhere
UnitMatrix(r, c, i, j, v) ==
    [x \in 0..(r-1) |-> [y \in 0..(c-1) |-> IF x = i /\ y = j THEN v ELSE 0]]

\* the r x c matrices with at most one nonzero entry, taken from vals
UnitMatrices(r, c, vals) ==
    {UnitMatrix(r, c, i, j, v) : i \in 0..(r-1), j \in 0..(c-1), v \in vals \cup {0}}

\* the K x K matrix of cross-bracket contact only (K = 1: the bracket with itself)
CrossMatrix(K) ==
    [x \in 0..(K-1) |-> [y \in 0..(K-1) |-> IF x # y \/ K = 1 THEN 1 ELSE 0]]

\* the r x c matrix of ones
Ones(r, c) == [x \in 0..(r-1) |-> [y \in 0..(c-1) |-> 1]]

\* one K x K matrix per setting
SquareMatrixDics(K, vals) == [Settings -> UnitMatrices(K, K, vals)]

\* per setting no matrix at all, or a matrix of any shape up to MaxK x MaxK
AnyShapeMatrixDics ==
    UNION {[ss -> {Ones(r, c) : r \in 1..MaxK, c \in 1..MaxK}] : ss \in SUBSET Settings}

\* the items of a weight dict: distinct setting codes in any order, weights from vals
WeightItems(vals) ==
    {<<>>}
    \cup {<<<<s, w>>>> : s \in Settings, w \in vals}
    \cup {<<<<p[1], w>>, <<p[2], v>>>> :
             p \in {q \in Settings \X Settings : q[1] # q[2]}, w \in vals, v \in vals}

\* the ages of the pool: brackets [0,1], [2,3], ... up to MaxAge
PoolRows == [i \in 0..(MaxAge \div 2) |-> <<2*i, Min2(2*i + 1, MaxAge)>>]

\* per age no list, an empty list, or a list of one identifier
Pools ==
    UNION {[as -> {<<>>, <<7>>}] : as \in SUBSET (0..MaxAge)}

\* lists with the identifiers made distinct: identifier 10 * age + 1
Identified(lists) ==
    [a \in DOMAIN lists |-> IF lists[a] = <<>> THEN <<>> ELSE <<10*a + 1>>]

ContactAges(n) == UNION {[1..k -> 0..MaxAge] : k \in 0..n}

\* bracket distributions on any keys of 0..MaxK with values 0, 1/2, 1, 3/2
AgeBracketDistrs ==
    {[w |-> f, den |-> 2] : f \in UNION {[ks -> 0..3] : ks \in SUBSET (0..MaxK)}}

\* male fractions: no table, or 1/2 or 3/2 for every bracket
GenderTables ==
    {[male |-> [w |-> EmptyDic, den |-> 2]]}
    \cup {[male |-> [w |-> [b \in 0..(MaxK-1) |-> v], den |-> 2]] : v \in {1, 3}}

AgeParams ==
    {[min_age |-> lo, max_age |-> hi, age_mean |-> 1, age_std |-> sd] :
        lo \in {0, MaxAge}, hi \in {0, MaxAge}, sd \in {-1, 0, 1}}

SamplerAt(d) == distr = d

BracketsAt(rows) ==
    /\ ab_rows = rows
    /\ age_brackets = get_age_brackets_from_df(rows)
    /\ age_by_brackets_dic = get_age_by_brackets_dic(get_age_brackets_from_df(rows))

MatricesAt(K, matrices, items) ==
    /\ num_agebrackets = K
    /\ matrix_dic = matrices
    /\ weights_dic = items

PersonAt(a, n) == age = a /\ n_contacts = n

PoolAt(lists, ages) ==
    /\ contact_ids_by_age_dic = [a \in DOMAIN lists |-> a]
    /\ heap = lists
    /\ contact_ages = ages

AgeSexAt(gender, d, p) ==
    /\ gender_fraction_by_age = gender
    /\ age_bracket_distr = d
    /\ age_params = p

RefSampler == SamplerAt(Dict([k \in 1..2 |-> k]))

RefBrackets == BracketsAt(RefRows(MaxK))

RefMatrices ==
    MatricesAt(MaxK, [s \in Settings |-> CrossMatrix(MaxK)], <<<<"H", 1>>>>)

RefPerson == PersonAt(0, 1)

RefPool == PoolAt(Identified([a \in 0..(2*MaxK - 1) |-> <<7>>]), <<0>>)

RefAgeSex ==
    AgeSexAt([male |-> [w |-> [b \in 0..(MaxK-1) |-> 1], den |-> 2]],
             [w |-> [b \in 0..(MaxK-1) |-> 1], den |-> MaxK],
             [min_age |-> 0, max_age |-> MaxAge, age_mean |-> 1, age_std |-> 1])

(***************************************************************************)
(* Specifications.                                                         *)
(***************************************************************************)
InitSampler ==
    /\ \E d \in Distrs : SamplerAt(d)
    /\ RefBrackets /\ RefMatrices /\ RefPerson /\ RefPool /\ RefAgeSex
    /\ res = NoCall

NextSampler == Call_norm_dic \/ Call_sample_single

SpecSampler == InitSampler /\ [][NextSampler]_vars

InitBrackets ==
    /\ \E rows \in RowSets : BracketsAt(rows)
    /\ RefSampler /\ RefMatrices /\ RefPerson /\ RefPool /\ RefAgeSex
    /\ res = NoCall

NextBrackets == Call_get_age_brackets_from_df \/ Call_get_age_by_brackets_dic

SpecBrackets == InitBrackets /\ [][NextBrackets]_vars

InitMatrices ==
    /\ \E K \in 1..MaxK :
          \E matrices \in SquareMatrixDics(K, {1, 2}) \cup AnyShapeMatrixDics :
             \E items \in WeightItems(0..2) : MatricesAt(K, matrices, items)
    /\ RefSampler /\ RefBrackets /\ RefPerson /\ RefPool /\ RefAgeSex
    /\ res = NoCall

NextMatrices == Call_combine_matrices

SpecMatrices == InitMatrices /\ [][NextMatrices]_vars

InitContacts ==
    /\ \E K \in 1..MaxK :
          /\ BracketsAt(RefRows(K))
          /\ \E matrices \in SquareMatrixDics(K, {1}) :
                \E items \in WeightItems(0..1) : MatricesAt(K, matrices, items)
          /\ \E a \in 0..(2*K) : \E n \in 0..MaxN : PersonAt(a, n)
    /\ RefSampler /\ RefPool /\ RefAgeSex
    /\ res = NoCall

NextContacts == Call_sample_n_contact_ages

SpecContacts == InitContacts /\ [][NextContacts]_vars

InitResolver ==
    /\ BracketsAt(PoolRows)
    /\ \E lists \in Pools : \E ages \in ContactAges(MaxN) : PoolAt(Identified(lists), ages)
    /\ RefSampler /\ RefMatrices /\ RefPerson /\ RefAgeSex
    /\ res = NoCall

NextResolver == Call_get_n_contact_ids_by_age

SpecResolver == InitResolver /\ [][NextResolver]_vars

InitAgeSex ==
    /\ \E gender \in GenderTables : \E d \in AgeBracketDistrs : \E p \in AgeParams :
          AgeSexAt(gender, d, p)
    /\ RefSampler /\ RefBrackets /\ RefMatrices /\ RefPerson /\ RefPool
    /\ res = NoCall

NextAgeSex == Call_get_age_sex

SpecAgeSex == InitAgeSex /\ [][NextAgeSex]_vars

\* every operation, on the distributions, the weight sets and the pools
Init ==
    \/ /\ \E d \in Distrs : SamplerAt(d)
       /\ RefBrackets /\ RefMatrices /\ RefPerson /\ RefPool /\ RefAgeSex
       /\ res = NoCall
    \/ /\ \E items \in WeightItems(0..1) :
             MatricesAt(MaxK, [s \in Settings |-> CrossMatrix(MaxK)], items)
       /\ \E n \in 0..MaxN : PersonAt(0, n)
       /\ RefSampler /\ RefBrackets /\ RefPool /\ RefAgeSex
       /\ res = NoCall
    \/ /\ BracketsAt(PoolRows)
       /\ \E lists \in Pools : \E ages \in ContactAges(1) : PoolAt(Identified(lists), ages)
       /\ RefSampler /\ RefMatrices /\ RefPerson /\ RefAgeSex
       /\ res = NoCall

Next ==
    \/ Call_norm_dic
    \/ Call_sample_single
    \/ Call_combine_matrices
    \/ Call_sample_n_contact_ages
    \/ Call_get_n_contact_ids_by_age

Spec == Init /\ [][Next]_vars

(***************************************************************************)
(* Properties.                                                             *)
(***************************************************************************)
RECURSIVE WeightedEntry(_, _, _, _, _)
\* the sum over the first k items (s, w) of w * matrices[s][i][j]
WeightedEntry(matrices, items, k, i, j) ==
    IF k = 0 THEN 0
    ELSE items[k][2] * matrices[items[k][1]][i][j] + WeightedEntry(matrices, items, k - 1, i, j)

\* the setting codes of the weight set
WeightCodes == {weights_dic[k][1] : k \in DOMAIN weights_dic}

\* every weighted setting has a matrix, and it is K x K
WeightedMatricesSquare ==
    \A s \in WeightCodes :
        /\ s \in DOMAIN matrix_dic
        /\ Rows(matrix_dic[s]) = num_agebrackets
        /\ Cols(matrix_dic[s]) = num_agebrackets

\* C1: combine_matrices returns the K x K matrix whose entry (i, j) is the sum over
\* the settings of weights_dic of weight * matrix entry; settings without a weight
\* contribute nothing, all-zero weights give the zero matrix, and weight 1 on one
\* setting with 0 on the others gives that setting's matrix.
C1_CombineIsWeightedSum ==
    (res.op = "combine_matrices" /\ WeightedMatricesSquare) =>
        /\ res.kind = "ok"
        /\ DOMAIN res.val = 0..(num_agebrackets - 1)
        /\ \A i \in 0..(num_agebrackets - 1) :
              /\ DOMAIN res.val[i] = 0..(num_agebrackets - 1)
              /\ \A j \in 0..(num_agebrackets - 1) :
                    res.val[i][j] = WeightedEntry(matrix_dic, weights_dic, Len(weights_dic), i, j)
        /\ (\A k \in DOMAIN weights_dic : weights_dic[k][2] = 0) => res.val = np_zeros(num_agebrackets)
        /\ \A k \in DOMAIN weights_dic :
              (/\ weights_dic[k][2] = 1
               /\ \A l \in DOMAIN weights_dic \ {k} : weights_dic[l][2] = 0)
              => res.val = matrix_dic[weights_dic[k][1]]

\* C1 witness: a combination with weight 2 on H alone while S has a nonzero matrix
\* that is left out
C1_Witness ==
    /\ res.op = "combine_matrices" /\ res.kind = "ok"
    /\ num_agebrackets = 2
    /\ weights_dic = <<<<"H", 2>>>>
    /\ DOMAIN matrix_dic = Settings
    /\ matrix_dic["H"] = UnitMatrix(2, 2, 0, 1, 1)
    /\ matrix_dic["S"] = UnitMatrix(2, 2, 1, 0, 2)
    /\ res.val = UnitMatrix(2, 2, 0, 1, 2)

\* C8 as claimed: combine_matrices fails whenever a matrix it combines is not K x K
C8_ShapeMismatchFails ==
    (/\ res.op = "combine_matrices"
     /\ \E s \in WeightCodes :
           /\ s \in DOMAIN matrix_dic
           /\ <<Rows(matrix_dic[s]), Cols(matrix_dic[s])>> # <<num_agebrackets, num_agebrackets>>)
    => res.kind # "ok"

\* the combined matrix entry (b, c)
CombinedEntry(b, c) == WeightedEntry(matrix_dic, weights_dic, Len(weights_dic), b, c)

\* row b of the combined matrix has a positive total
RowPositive(b) ==
    \E c \in 0..(num_agebrackets - 1) : CombinedEntry(b, c) > 0

\* the returned ages lie in destination brackets of positive combined weight
AgesFromPositiveBrackets(b, ages) ==
    \A k \in DOMAIN ages :
        \E c \in 0..(num_agebrackets - 1) :
            /\ CombinedEntry(b, c) > 0
            /\ ages[k] \in Values(age_brackets[c])

\* C2 as claimed: for an age inside the brackets, sample_n_contact_ages returns n ages,
\* each in a destination bracket of positive combined weight
C2_ReturnsNAges ==
    (res.op = "sample_n_contact_ages" /\ age \in DOMAIN age_by_brackets_dic) =>
        /\ res.kind = "ok"
        /\ Len(res.val) = n_contacts
        /\ AgesFromPositiveBrackets(age_by_brackets_dic[age], res.val)

\* C2 amended: ... provided n = 0 or the row of the individual's bracket in the
\* combined matrix has a positive total
C2_ReturnsNAgesOnPositiveRow ==
    (/\ res.op = "sample_n_contact_ages"
     /\ age \in DOMAIN age_by_brackets_dic
     /\ n_contacts = 0 \/ RowPositive(age_by_brackets_dic[age])) =>
        /\ res.kind = "ok"
        /\ Len(res.val) = n_contacts
        /\ AgesFromPositiveBrackets(age_by_brackets_dic[age], res.val)

\* C2 witness: the end-to-end scenario, two contacts of an individual of bracket 0
\* under cross-bracket contact only, both in bracket 1
C2_Witness ==
    /\ res.op = "sample_n_contact_ages" /\ res.kind = "ok"
    /\ num_agebrackets = 2 /\ age = 1 /\ n_contacts = 2
    /\ CombinedEntry(0, 0) = 0 /\ CombinedEntry(0, 1) > 0
    /\ res.val = <<3, 2>>

\* the identifiers of the pools of the bracket of contact_age
BracketIds(contact_age) ==
    UNION {Values(heap[contact_ids_by_age_dic[a]]) :
              a \in Values(age_brackets[age_by_brackets_dic[contact_age]])}

\* C3 as claimed: with an empty pool at a contact age and candidates elsewhere in each
\* bracket, identifiers of those brackets are returned; with a bracket whose pools are
\* all empty, the call fails
C3_BroadensToBracket ==
    (/\ res.op = "get_n_contact_ids_by_age"
     /\ DOMAIN contact_ids_by_age_dic = DOMAIN age_by_brackets_dic
     /\ contact_ages # <<>>) =>
        /\ (\E k \in DOMAIN contact_ages : BracketIds(contact_ages[k]) = {}) => res.kind # "ok"
        /\ (/\ \A k \in DOMAIN contact_ages : BracketIds(contact_ages[k]) # {}
            /\ \E k \in DOMAIN contact_ages : heap[contact_ids_by_age_dic[contact_ages[k]]] = <<>>)
           => /\ res.kind = "ok"
              /\ \A k \in DOMAIN contact_ages : res.val \cap BracketIds(contact_ages[k]) # {}

\* the weights of the distribution passed to sample_single
DistrWeights == {distr.w[k] : k \in DOMAIN distr.w}

\* C4 as claimed: sample_single fails when every weight of the mapping or array is zero
\* or some weight is negative
C4_InvalidDistributionFails ==
    (/\ res.op = "sample_single"
     /\ distr.type \in {"dict", "ndarray"}
     /\ DistrWeights \subseteq {0} \/ \E x \in DistrWeights : x < 0)
    => res.kind # "ok"

\* C6: on a mapping or array of non-negative weights of positive total, sample_single
\* returns a key (index) of the input whose weight is positive
C6_SamplesPositiveKey ==
    (/\ res.op = "sample_single"
     /\ distr.type \in {"dict", "ndarray"}
     /\ \A x \in DistrWeights : x >= 0
     /\ \E x \in DistrWeights : x > 0) =>
        /\ res.kind = "ok"
        /\ res.val \in DOMAIN distr.w
        /\ distr.w[res.val] > 0

\* C6 witness: a mapping whose smallest and largest keys weigh zero, and the key
\* between them returned
C6_Witness ==
    /\ res.op = "sample_single" /\ res.kind = "ok"
    /\ distr.type = "dict"
    /\ DOMAIN distr.w = 1..3
    /\ distr.w[1] = 0 /\ distr.w[2] = 2 /\ distr.w[3] = 0
    /\ res.val = 2

\* the brackets share no age
BracketsDisjoint ==
    \A b \in DOMAIN age_brackets : \A c \in DOMAIN age_brackets :
        b # c => Values(age_brackets[b]) \cap Values(age_brackets[c]) = {}

\* C7: for bracket definitions without overlaps, the lookup of get_age_by_brackets_dic
\* maps every age of every bracket back to that bracket
C7_RoundTrip ==
    (res.op = "get_age_by_brackets_dic" /\ BracketsDisjoint) =>
        \A b \in DOMAIN age_brackets : \A i \in DOMAIN age_brackets[b] :
            /\ age_brackets[b][i] \in DOMAIN res.val
            /\ res.val[age_brackets[b][i]] = b

\* C7 witness: the lookup built for two brackets of several ages each
C7_Witness ==
    /\ res.op = "get_age_by_brackets_dic"
    /\ BracketsDisjoint
    /\ DOMAIN age_brackets = 0..1
    /\ Size(age_brackets[0]) = 2 /\ Size(age_brackets[1]) = 2
    /\ res.val[age_brackets[1][1]] = 1

\* C9: no call changes the distribution, the matrices, the weight set, the bracket
\* definitions or the pool with its identifier lists
C9_InputsUnchanged == [][inputs' = inputs]_vars

\* C9 witness: the resolver has pooled a bracket's lists for an age whose own list is empty
C9_Witness ==
    /\ res.op = "get_n_contact_ids_by_age" /\ res.kind = "AttributeError"
    /\ contact_ages = <<0>>
    /\ 0 \in DOMAIN heap /\ 1 \in DOMAIN heap
    /\ heap[0] = <<>> /\ heap[1] # <<>>

BracketWeights == {age_bracket_distr.w[k] : k \in DOMAIN age_bracket_distr.w}

\* C10 as claimed: on a distribution of non-negative weights with a positive total, with
\* brackets for its keys, a complete male table and valid fallback parameters,
\* get_age_sex returns from its primary path an age of a bracket of positive weight
C10_PrimaryPathOnWellFormed ==
    (/\ res.op = "get_age_sex"
     /\ age_params.age_std >= 0 /\ age_params.min_age <= age_params.max_age
     /\ \A x \in BracketWeights : x >= 0
     /\ \E x \in BracketWeights : x > 0
     /\ DOMAIN age_bracket_distr.w \subseteq DOMAIN age_brackets
     /\ DOMAIN age_brackets \subseteq DOMAIN gender_fraction_by_age.male.w
     /\ \A b \in DOMAIN gender_fraction_by_age.male.w :
           /\ 0 <= gender_fraction_by_age.male.w[b]
           /\ gender_fraction_by_age.male.w[b] <= gender_fraction_by_age.male.den) =>
        /\ res.kind = "ok"
        /\ res.val.path = "primary"
        /\ \E b \in DOMAIN age_bracket_distr.w :
              /\ age_bracket_distr.w[b] > 0
              /\ res.val.age \in Values(age_brackets[b])

====
